---- MODULE Spec2Model ----
(***************************************************************************)
(* Model of the dashboard page component src/app/page.tsx (function Home): *)
(* the Record Store (announcements), the eight filter criteria, the        *)
(* derived Filtered View (filteredAnnouncements) and the fetches that      *)
(* replace the store.                                                      *)
(*                                                                         *)
(* A JavaScript string is modelled as a sequence of one-character strings, *)
(* so that toLowerCase, includes, split and trim are computed character by *)
(* character.  A JSON value returned by the backend is a tagged record, so *)
(* that Array.isArray is a test the model can fail.                        *)
(***************************************************************************)
EXTENDS Integers, Sequences, FiniteSets, TLC

VARIABLES announcements, stats, loading, lastFetch,
          searchTerm, filterType, filterLocation, filterProduct,
          filterStatus, filterDateFrom, filterDateTo, filterCompany,
          annPending, statsPending,
          exporting, lastExport,
          scraping, statusCheckInterval, timers, startsIssued, startPending,
          polls, completions, alert, idleBy, lastPoll,
          cleared,
          toggles, saves, editingContact, contactForm, lastWrite,
          annInFlight, reqSeq, arrivals, writeSeq

filterVars == <<searchTerm, filterType, filterLocation, filterProduct,
                filterStatus, filterDateFrom, filterDateTo, filterCompany,
                cleared>>

storeVars == <<announcements, stats, loading, lastFetch>>

netVars == <<annPending, statsPending>>

exportVars == <<exporting, lastExport>>

monitorVars == <<scraping, statusCheckInterval, timers, startsIssued,
                 startPending, polls, completions, alert, idleBy, lastPoll>>

writeVars == <<toggles, saves, editingContact, contactForm, lastWrite,
               annInFlight, reqSeq, arrivals, writeSeq>>

otherVars == <<exportVars, monitorVars, writeVars>>

vars == <<storeVars, filterVars, netVars, exportVars, monitorVars, writeVars>>

(***************************************************************************)
(* Bounds.                                                                 *)
(***************************************************************************)
\* Largest number of requests of one kind (announcements, stats) in flight.
MaxPending == 1

\* Start commands issued between two page loads.
MaxStarts == 2

\* Status requests that are in flight together.
MaxPolls == 2

\* Check-toggle and contact-save calls between two page loads.
MaxWrites == 2

\* Clicks on "Refresh Data" between two page loads.
MaxRequests == 2

\* Identifiers setInterval can return.
TimerIds == 1..MaxStarts

(***************************************************************************)
(* JavaScript strings.                                                     *)
(***************************************************************************)
Empty == <<>>

\* String.prototype.toLowerCase on the letters the pools use.
LowerChar(c) ==
    CASE c = "A" -> "a" [] c = "B" -> "b" [] c = "C" -> "c" [] c = "D" -> "d"
      [] c = "F" -> "f" [] c = "L" -> "l" [] c = "M" -> "m" [] c = "O" -> "o"
      [] c = "R" -> "r" [] c = "S" -> "s" [] c = "T" -> "t" [] c = "Z" -> "z"
      [] OTHER -> c

toLowerCase(s) == [i \in 1..Len(s) |-> LowerChar(s[i])]

\* String.prototype.includes: needle occurs in s as a contiguous run; the
\* empty needle occurs in every string.
includes(s, needle) ==
    \E k \in 0..(Len(s) - Len(needle)) :
        SubSeq(s, k + 1, k + Len(needle)) = needle

\* White space removed by String.prototype.trim.
IsSpace(c) == c = " "

RECURSIVE trimStart(_)
trimStart(s) ==
    IF s # Empty /\ IsSpace(Head(s)) THEN trimStart(Tail(s)) ELSE s

RECURSIVE trimEnd(_)
trimEnd(s) ==
    IF s # Empty /\ IsSpace(s[Len(s)])
    THEN trimEnd(SubSeq(s, 1, Len(s) - 1))
    ELSE s

trim(s) == trimEnd(trimStart(s))

\* String.prototype.split(","): the segments between commas, in order; a
\* string without a comma (the empty string too) gives one segment.
RECURSIVE split(_)
split(s) ==
    IF \E i \in 1..Len(s) : s[i] = ","
    THEN LET i == CHOOSE j \in 1..Len(s) :
                     /\ s[j] = ","
                     /\ \A k \in 1..(j - 1) : s[k] # ","
         IN  <<SubSeq(s, 1, i - 1)>> \o split(SubSeq(s, i + 1, Len(s)))
    ELSE <<s>>

\* Truthiness of a string (Boolean(s), `s ? x : y`).
Truthy(s) == s # Empty

(***************************************************************************)
(* JavaScript arrays.                                                      *)
(***************************************************************************)
\* Array.prototype.filter is SelectSeq and Array.prototype.map a function
\* over the indices: the elements, or their images, in the array's order.

\* Array.from(new Set(arr)): first occurrences, in insertion order.
RECURSIVE fromSet(_)
fromSet(arr) ==
    IF arr = <<>> THEN <<>>
    ELSE LET init == fromSet(SubSeq(arr, 1, Len(arr) - 1))
             last == arr[Len(arr)]
         IN  IF \E i \in 1..Len(init) : init[i] = last
             THEN init
             ELSE Append(init, last)

\* Array.prototype.flatMap over an array of arrays.
RECURSIVE flat(_)
flat(arrs) == IF arrs = <<>> THEN <<>> ELSE Head(arrs) \o flat(Tail(arrs))

Range(s) == {s[i] : i \in 1..Len(s)}

(***************************************************************************)
(* JSON values of a response body.                                         *)
(***************************************************************************)
JArray(items) == [tag |-> "array", items |-> items]

\* A body that is valid JSON but no array (an error object, null).
JObject == [tag |-> "object", items |-> <<>>]

isArray(v) == v.tag = "array"

(***************************************************************************)
(* Dates: new Date(string) and the relational operators on Date objects.   *)
(***************************************************************************)
InvalidDate == [kind |-> "invalid", time |-> 0]

Null == [kind |-> "null", time |-> 0]

ValidDate(t) == [kind |-> "date", time |-> t]

DigitChars == {"0", "1", "2", "3", "4", "5", "6", "7", "8", "9"}

DigitVal(c) ==
    CASE c = "0" -> 0 [] c = "1" -> 1 [] c = "2" -> 2 [] c = "3" -> 3
      [] c = "4" -> 4 [] c = "5" -> 5 [] c = "6" -> 6 [] c = "7" -> 7
      [] c = "8" -> 8 [] c = "9" -> 9

IsLeap(y) == (y % 4 = 0 /\ y % 100 # 0) \/ y % 400 = 0

DaysInMonth(y, m) ==
    IF m = 2 THEN (IF IsLeap(y) THEN 29 ELSE 28)
    ELSE IF m \in {4, 6, 9, 11} THEN 30 ELSE 31

\* Days from 1970-01-01 to the civil date y-m-d (the time value of a
\* date-only ISO string, which is UTC midnight, in days).
DaysFromCivil(y, m, d) ==
    LET yy  == IF m <= 2 THEN y - 1 ELSE y
        era == yy \div 400
        yoe == yy - era * 400
        mp  == (m + 9) % 12
        doy == (153 * mp + 2) \div 5 + d - 1
        doe == yoe * 365 + yoe \div 4 - yoe \div 100 + doy
    IN  era * 146097 + doe - 719468

\* new Date(s) for the date-only ISO form YYYY-MM-DD; any other string of
\* the pools ("", "n/a") is one the date parser rejects (Invalid Date).
NewDate(s) ==
    IF /\ Len(s) = 10
       /\ s[5] = "-" /\ s[8] = "-"
       /\ \A i \in {1, 2, 3, 4, 6, 7, 9, 10} : s[i] \in DigitChars
    THEN LET y == DigitVal(s[1]) * 1000 + DigitVal(s[2]) * 100
                    + DigitVal(s[3]) * 10 + DigitVal(s[4])
             m == DigitVal(s[6]) * 10 + DigitVal(s[7])
             d == DigitVal(s[9]) * 10 + DigitVal(s[10])
         IN  IF m \in 1..12 /\ d \in 1..DaysInMonth(y, m)
             THEN ValidDate(DaysFromCivil(y, m, d))
             ELSE InvalidDate
    ELSE InvalidDate

\* >= replaced by >: the bound itself excluded.
DateGE_strict(a, b) == a.kind = "date" /\ b.kind = "date" /\ a.time > b.time

\* >= with an Invalid Date operand taken to hold.
DateGE_invalidPasses(a, b) ==
    a.kind # "date" \/ b.kind # "date" \/ a.time >= b.time

\* a >= b on two Date objects: both are converted to their time values and
\* a comparison with NaN (an Invalid Date) is false.
DateGE(a, b) == a.kind = "date" /\ b.kind = "date" /\ a.time >= b.time

\* a <= b on two Date objects.
DateLE(a, b) == a.kind = "date" /\ b.kind = "date" /\ a.time <= b.time

\* !x for x a Date object or null: only null is falsy.
Not(x) == x.kind = "null"

(***************************************************************************)
(* String literals of the pools.                                           *)
(***************************************************************************)
\* "all"
sAll == <<"a", "l", "l">>

\* "checked"
sChecked == <<"c", "h", "e", "c", "k", "e", "d">>

\* "unchecked"
sUnchecked == <<"u", "n", "c", "h", "e", "c", "k", "e", "d">>

\* "AL"
sAL == <<"A", "L">>

\* "aC"
sAC == <<"a", "C">>

\* "Acme"
sAcme == <<"A", "c", "m", "e">>

\* "Bob"
sBob == <<"B", "o", "b">>

\* "Royal"
sRoyal == <<"R", "o", "y", "a", "l">>

\* "Zed"
sZed == <<"Z", "e", "d">>

\* "Mac"
sMac == <<"M", "a", "c">>

\* "T"
sT == <<"T">>

\* "Sale"
sSale == <<"S", "a", "l", "e">>

\* "D"
sD == <<"D">>

\* "halo"
sHalo == <<"h", "a", "l", "o">>

\* "Fruits, Bio"
sFruitsBio == <<"F", "r", "u", "i", "t", "s", ",", " ", "B", "i", "o">>

\* "Fruits"
sFruits == <<"F", "r", "u", "i", "t", "s">>

\* "Bio"
sBio == <<"B", "i", "o">>

\* "Salty bio"
sSaltyBio == <<"S", "a", "l", "t", "y", " ", "b", "i", "o">>

\* "alger"
sAlger == <<"a", "l", "g", "e", "r">>

\* "Alger"
sAlgerCap == <<"A", "l", "g", "e", "r">>

\* "Offre"
sOffre == <<"O", "f", "f", "r", "e">>

\* "Demande"
sDemande == <<"D", "e", "m", "a", "n", "d", "e">>

\* "2024-01-15"
d20240115 == <<"2", "0", "2", "4", "-", "0", "1", "-", "1", "5">>

\* "2024-02-01"
d20240201 == <<"2", "0", "2", "4", "-", "0", "2", "-", "0", "1">>

\* "2024-01-31"
d20240131 == <<"2", "0", "2", "4", "-", "0", "1", "-", "3", "1">>

\* "2024-01-01"
d20240101 == <<"2", "0", "2", "4", "-", "0", "1", "-", "0", "1">>

\* "2023-12-31"
d20231231 == <<"2", "0", "2", "3", "-", "1", "2", "-", "3", "1">>

\* "n/a"
sNA == <<"n", "/", "a">>

\* "u/1"
sUrl == <<"u", "/", "1">>

\* "u/al"
sUrlAl == <<"u", "/", "a", "l">>

\* "al@x"
sMailAl == <<"a", "l", "@", "x">>

(***************************************************************************)
(* Announcement records (interface Announcement) and the response bodies   *)
(* the backend is taken to return.                                         *)
(***************************************************************************)
Announcement(id, company, title, description, products, location, type, date, url, checked, mail) ==
    [id |-> id, company_name |-> company, announcement_title |-> title,
     description |-> description, products |-> products,
     location |-> location, announcement_type |-> type,
     announcement_date |-> date, announcement_url |-> url,
     scraped_date |-> d20240201, checked |-> checked,
     prenom |-> Empty, adresse |-> Empty, cod_postal |-> Empty,
     ville |-> Empty, mail |-> mail, tel |-> Empty, web_site |-> Empty,
     ok |-> Empty]

\* "al" occurs in exactly one searchable field of R1..R6 (location,
\* location, company name, title, description, products) and only in the
\* URL and mail of R7.
R1 == Announcement(1, sAcme, sT, sD, sFruitsBio, sAlger, sOffre,
                   d20240115, sUrl, 1, Empty)

R2 == Announcement(2, sBob, sT, sD, sFruits, sAlgerCap, sOffre,
                   d20240201, sUrl, 0, Empty)

R3 == Announcement(3, sRoyal, sT, sD, Empty, Empty, sDemande,
                   sNA, sUrl, 0, Empty)

R4 == Announcement(4, sZed, sSale, sD, sFruits, Empty, sOffre,
                   d20240131, sUrl, 1, Empty)

R5 == Announcement(5, sZed, sT, sHalo, sBio, Empty, sDemande,
                   d20240101, sUrl, 2, Empty)

R6 == Announcement(6, sMac, sT, sD, sSaltyBio, Empty, Empty,
                   d20231231, sUrl, 0, Empty)

R7 == Announcement(7, sZed, sT, sD, sBio, Empty, sOffre,
                   Empty, sUrlAl, 1, sMailAl)

\* Arrays the announcements endpoint may return.
AnnouncementArrays ==
    { <<>>, <<R6, R1>>, <<R1, R2, R3>>, <<R3, R1>>, <<R4, R5, R6, R7>> }

\* Bodies of a response to GET /api/announcements.
AnnouncementBodies == {JArray(a) : a \in AnnouncementArrays} \cup {JObject}

\* useState<Stats> initial value.
InitialStats == [total |-> 0, checked |-> 0, unchecked |-> 0, today |-> 0]

\* Bodies of a response to GET /api/stats.
StatsBodies == { [total |-> 3, checked |-> 1, unchecked |-> 2, today |-> 0] }

\* Values typed into the search box, the company box and the date inputs.
SearchInputs == {Empty, sAL}

CompanyInputs == {Empty, sAC}

DateFromInputs == {Empty, d20240101, sNA}

DateToInputs == {Empty, d20240131, sNA}

(***************************************************************************)
(* Filter Engine: filteredAnnouncements (page.tsx 307-363).                *)
(***************************************************************************)
\* matchesSearch looking into the announcement URL as well.
matchesSearch_withUrl(a) ==
    \/ searchTerm = Empty
    \/ includes(toLowerCase(a.announcement_title), toLowerCase(searchTerm))
    \/ includes(toLowerCase(a.description), toLowerCase(searchTerm))
    \/ includes(toLowerCase(a.location), toLowerCase(searchTerm))
    \/ includes(toLowerCase(a.products), toLowerCase(searchTerm))
    \/ includes(toLowerCase(a.company_name), toLowerCase(searchTerm))
    \/ includes(toLowerCase(a.announcement_url), toLowerCase(searchTerm))

matchesSearch(a) ==
    \/ searchTerm = Empty
    \/ includes(toLowerCase(a.announcement_title), toLowerCase(searchTerm))
    \/ includes(toLowerCase(a.description), toLowerCase(searchTerm))
    \/ includes(toLowerCase(a.location), toLowerCase(searchTerm))
    \/ includes(toLowerCase(a.products), toLowerCase(searchTerm))
    \/ includes(toLowerCase(a.company_name), toLowerCase(searchTerm))

matchesType(a) == filterType = sAll \/ a.announcement_type = filterType

\* matchesLocation comparing without regard to case.
matchesLocation_ignoringCase(a) ==
    filterLocation = sAll \/ toLowerCase(a.location) = toLowerCase(filterLocation)

matchesLocation(a) == filterLocation = sAll \/ a.location = filterLocation

\* matchesProduct comparing the selected product with each trimmed segment.
matchesProduct_perSegment(a) ==
    \/ filterProduct = sAll
    \/ \E i \in 1..Len(split(a.products)) :
           toLowerCase(trim(split(a.products)[i])) = toLowerCase(filterProduct)

matchesProduct(a) ==
    \/ filterProduct = sAll
    \/ includes(toLowerCase(a.products), toLowerCase(filterProduct))

\* The status rule testing the flag for truthiness instead of === 1.
matchesStatusFor_truthy(status, a) ==
    \/ status = sAll
    \/ (status = sChecked /\ a.checked # 0)
    \/ (status = sUnchecked /\ a.checked = 0)

\* The status rule of the filter callback for a selected status.
matchesStatusFor(status, a) ==
    \/ status = sAll
    \/ (status = sChecked /\ a.checked = 1)
    \/ (status = sUnchecked /\ a.checked = 0)

matchesStatus(a) == matchesStatusFor(filterStatus, a)

announcementDate(a) == NewDate(a.announcement_date)

\* fromDate built without the test for an empty bound.
fromDate_alwaysParsed == NewDate(filterDateFrom)

fromDate == IF Truthy(filterDateFrom) THEN NewDate(filterDateFrom) ELSE Null

toDate == IF Truthy(filterDateTo) THEN NewDate(filterDateTo) ELSE Null

matchesDateFrom(a) == Not(fromDate) \/ DateGE(announcementDate(a), fromDate)

matchesDateTo(a) == Not(toDate) \/ DateLE(announcementDate(a), toDate)

matchesCompany(a) ==
    \/ filterCompany = Empty
    \/ includes(toLowerCase(a.company_name), toLowerCase(filterCompany))

\* matchesAll with the company criterion left out of the conjunction.
matchesAll_withoutCompany(a) ==
    /\ matchesSearch(a)
    /\ matchesType(a)
    /\ matchesLocation(a)
    /\ matchesProduct(a)
    /\ matchesStatus(a)
    /\ matchesDateFrom(a)
    /\ matchesDateTo(a)

\* The callback given to announcements.filter.
matchesAll(a) ==
    /\ matchesSearch(a)
    /\ matchesType(a)
    /\ matchesLocation(a)
    /\ matchesProduct(a)
    /\ matchesStatus(a)
    /\ matchesDateFrom(a)
    /\ matchesDateTo(a)
    /\ matchesCompany(a)

Reverse(s) == [i \in 1..Len(s) |-> s[Len(s) + 1 - i]]

\* filteredAnnouncements listing the newest (last) record first.
filteredAnnouncements_reversed ==
    IF isArray(announcements)
    THEN Reverse(SelectSeq(announcements.items, matchesAll))
    ELSE <<>>

filteredAnnouncements ==
    IF isArray(announcements)
    THEN SelectSeq(announcements.items, matchesAll)
    ELSE <<>>

(***************************************************************************)
(* Facet Extractor (page.tsx 365-378): the options of the selectors.       *)
(***************************************************************************)
\* announcements.map((a) => a.announcement_type)
Types == [i \in 1..Len(announcements.items) |->
             announcements.items[i].announcement_type]

\* announcements.map((a) => a.location)
Locations == [i \in 1..Len(announcements.items) |->
                 announcements.items[i].location]

\* The segments of p left as split returns them, white space included.
TrimmedSegments_untrimmed(p) == split(p)

\* p.split(",").map((s) => s.trim())
TrimmedSegments(p) == [i \in 1..Len(split(p)) |-> trim(split(p)[i])]

\* announcements.map((a) => a.products).flatMap(...)
ProductTokens == flat([i \in 1..Len(announcements.items) |->
                          TrimmedSegments(announcements.items[i].products)])

uniqueTypes == SelectSeq(fromSet(Types), Truthy)

uniqueLocations == SelectSeq(fromSet(Locations), Truthy)

uniqueProducts == SelectSeq(fromSet(ProductTokens), Truthy)

(***************************************************************************)
(* Export Serializer: exportToCSV (page.tsx 230-305).                      *)
(***************************************************************************)
\* The double quote character.
DQ == "\""

\* An optional field that is absent from the record (undefined).
Undefined == <<"undefined">>

\* String(n) for a natural number n.
RECURSIVE NumToStr(_)
NumToStr(n) ==
    LET digit == SubSeq(<<"0", "1", "2", "3", "4", "5", "6", "7", "8", "9">>,
                        (n % 10) + 1, (n % 10) + 1)
    IN  IF n < 10 THEN digit ELSE NumToStr(n \div 10) \o digit

\* The text a value takes inside a template literal.
TemplateText(v) ==
    IF v = Undefined THEN <<"u", "n", "d", "e", "f", "i", "n", "e", "d">> ELSE v

\* v || "".
OrEmpty(v) == IF v = Undefined \/ v = Empty THEN Empty ELSE v

\* s.replace(/"/g, '""').
RECURSIVE replaceQuotes(_)
replaceQuotes(s) ==
    IF s = Empty THEN Empty
    ELSE (IF Head(s) = DQ THEN <<DQ, DQ>> ELSE <<Head(s)>>)
             \o replaceQuotes(Tail(s))

\* `"${v}"`.
Wrap(v) == <<DQ>> \o TemplateText(v) \o <<DQ>>

\* Array.prototype.join.
RECURSIVE join(_, _)
join(arr, sep) ==
    IF arr = <<>> THEN Empty
    ELSE IF Len(arr) = 1 THEN arr[1]
    ELSE arr[1] \o sep \o join(Tail(arr), sep)

\* "Checked"
sCheckedLabel == <<"C", "h", "e", "c", "k", "e", "d">>

\* "Unchecked"
sUncheckedLabel == <<"U", "n", "c", "h", "e", "c", "k", "e", "d">>

csvHeaders ==
    <<<<"I", "D">>,
      <<"C", "o", "m", "p", "a", "n", "y", " ", "N", "a", "m", "e">>,
      <<"T", "i", "t", "l", "e">>,
      <<"D", "e", "s", "c", "r", "i", "p", "t", "i", "o", "n">>,
      <<"T", "y", "p", "e">>,
      <<"L", "o", "c", "a", "t", "i", "o", "n">>,
      <<"P", "r", "o", "d", "u", "c", "t", "s">>,
      <<"D", "a", "t", "e">>,
      <<"U", "R", "L">>,
      <<"S", "t", "a", "t", "u", "s">>,
      <<"S", "c", "r", "a", "p", "e", "d", " ", "D", "a", "t", "e">>,
      <<"P", "r", "é", "n", "o", "m">>,
      <<"A", "d", "r", "e", "s", "s", "e">>,
      <<"C", "o", "d", "e", " ", "P", "o", "s", "t", "a", "l">>,
      <<"V", "i", "l", "l", "e">>,
      <<"M", "a", "i", "l">>,
      <<"T", "é", "l", "é", "p", "h", "o", "n", "e">>,
      <<"W", "e", "b", " ", "S", "i", "t", "e">>,
      <<"O", "K">>>>

\* csvRow without the status label.
csvRow_withoutStatus(a) ==
    <<NumToStr(a.id),
      Wrap(a.company_name),
      Wrap(a.announcement_title),
      Wrap(replaceQuotes(a.description)),
      Wrap(a.announcement_type),
      Wrap(a.location),
      Wrap(a.products),
      a.announcement_date,
      a.announcement_url,
      a.scraped_date,
      Wrap(OrEmpty(a.prenom)),
      Wrap(OrEmpty(a.adresse)),
      Wrap(OrEmpty(a.cod_postal)),
      Wrap(OrEmpty(a.ville)),
      Wrap(OrEmpty(a.mail)),
      Wrap(OrEmpty(a.tel)),
      Wrap(OrEmpty(a.web_site)),
      Wrap(OrEmpty(a.ok))>>

\* One element of csvData, with every entry as the text join gives it.
csvRow(a) ==
    <<NumToStr(a.id),
      Wrap(a.company_name),
      Wrap(a.announcement_title),
      Wrap(replaceQuotes(a.description)),
      Wrap(a.announcement_type),
      Wrap(a.location),
      Wrap(a.products),
      a.announcement_date,
      a.announcement_url,
      IF a.checked = 1 THEN sCheckedLabel ELSE sUncheckedLabel,
      a.scraped_date,
      Wrap(OrEmpty(a.prenom)),
      Wrap(OrEmpty(a.adresse)),
      Wrap(OrEmpty(a.cod_postal)),
      Wrap(OrEmpty(a.ville)),
      Wrap(OrEmpty(a.mail)),
      Wrap(OrEmpty(a.tel)),
      Wrap(OrEmpty(a.web_site)),
      Wrap(OrEmpty(a.ok))>>

\* csvData built from the whole store instead of the view.
csvData_allRecords(view) ==
    [i \in 1..Len(announcements.items) |-> csvRow(announcements.items[i])]

csvData(view) == [i \in 1..Len(view) |-> csvRow(view[i])]

csvContent(view) ==
    join(<<join(csvHeaders, <<",">>)>>
             \o [i \in 1..Len(view) |-> join(csvData(view)[i], <<",">>)],
         <<"\n">>)

\* lastExport before the first export.
NoExport == [view |-> <<>>, csvData |-> <<>>, csvContent |-> Empty]

\* The contact form as useState creates it and as the handlers reset it.
EmptyForm ==
    [prenom |-> Empty, adresse |-> Empty, cod_postal |-> Empty,
     ville |-> Empty, mail |-> Empty, tel |-> Empty, web_site |-> Empty,
     ok |-> Empty]

\* No check-toggle or contact-save has ended yet.
NoWrite == [op |-> "none", req |-> <<>>, rest |-> {}]

(***************************************************************************)
(* Initial state: the component has mounted and its effect has issued the  *)
(* first fetchAnnouncements() and fetchStats().                            *)
(***************************************************************************)
Init ==
    /\ announcements = JArray(<<>>)
    /\ stats = InitialStats
    /\ loading = TRUE
    /\ lastFetch = "none"
    /\ searchTerm = Empty
    /\ filterType = sAll
    /\ filterLocation = sAll
    /\ filterProduct = sAll
    /\ filterStatus = sAll
    /\ filterDateFrom = Empty
    /\ filterDateTo = Empty
    /\ filterCompany = Empty
    /\ annPending = 1
    /\ statsPending = 1
    /\ exporting = FALSE
    /\ lastExport = NoExport
    /\ scraping = FALSE
    /\ statusCheckInterval = 0
    /\ timers = {}
    /\ startsIssued = 0
    /\ startPending = {}
    /\ polls = [t \in TimerIds |-> 0]
    /\ completions = [ann |-> 0, stats |-> 0]
    /\ alert = "none"
    /\ idleBy = "load"
    /\ lastPoll = "none"
    /\ cleared = FALSE
    /\ toggles = {}
    /\ saves = {}
    /\ editingContact = 0
    /\ contactForm = EmptyForm
    /\ lastWrite = NoWrite
    /\ annInFlight = {}
    /\ reqSeq = 0
    /\ arrivals = <<>>
    /\ writeSeq = 0

(***************************************************************************)
(* Fetches.  lastFetch records how the latest fetchAnnouncements ended:    *)
(* the kind of body it parsed ("array", "object") or "error" for the catch *)
(* branch; "none" before the first one has ended.                          *)
(***************************************************************************)
\* setAnnouncements(data) without the Array.isArray test.
StoreOf_unchecked(data) == data

\* setAnnouncements(Array.isArray(data) ? data : []).
StoreOf(data) == IF isArray(data) THEN data ELSE JArray(<<>>)

\* The "Refresh Data" button: fetchAnnouncements(); fetchStats().
RefreshData ==
    /\ annPending < MaxPending
    /\ statsPending < MaxPending
    /\ annPending' = annPending + 1
    /\ statsPending' = statsPending + 1
    /\ UNCHANGED <<storeVars, filterVars>>
    /\ UNCHANGED otherVars

\* fetchAnnouncements: the response arrived and its body, one of bodies,
\* parsed as data.
FetchAnnouncementsFrom(bodies) ==
    /\ annPending > 0
    /\ \E data \in bodies :
           /\ announcements' = StoreOf(data)
           /\ lastFetch' = data.tag
    /\ loading' = FALSE
    /\ annPending' = annPending - 1
    /\ UNCHANGED <<stats, statsPending, filterVars>>
    /\ UNCHANGED otherVars

FetchAnnouncementsOk == FetchAnnouncementsFrom(AnnouncementBodies)

\* The catch branch without setAnnouncements([]).
FetchAnnouncementsError_keepsStore ==
    /\ annPending > 0
    /\ lastFetch' = "error"
    /\ loading' = FALSE
    /\ annPending' = annPending - 1
    /\ UNCHANGED <<announcements, stats, statsPending, filterVars>>
    /\ UNCHANGED otherVars

\* fetchAnnouncements: fetch or response.json() rejected (catch branch).
FetchAnnouncementsError ==
    /\ annPending > 0
    /\ announcements' = JArray(<<>>)
    /\ lastFetch' = "error"
    /\ loading' = FALSE
    /\ annPending' = annPending - 1
    /\ UNCHANGED <<stats, statsPending, filterVars>>
    /\ UNCHANGED otherVars

\* fetchStats: setStats(data).
FetchStatsOk ==
    /\ statsPending > 0
    /\ \E data \in StatsBodies : stats' = data
    /\ statsPending' = statsPending - 1
    /\ UNCHANGED <<announcements, loading, lastFetch, annPending, filterVars>>
    /\ UNCHANGED otherVars

\* fetchStats: the catch branch only logs.
FetchStatsError ==
    /\ statsPending > 0
    /\ statsPending' = statsPending - 1
    /\ UNCHANGED <<storeVars, annPending, filterVars>>
    /\ UNCHANGED otherVars

(***************************************************************************)
(* Filter criteria: the inputs and selectors of the filter panel.          *)
(***************************************************************************)
SetSearchTerm ==
    /\ \E v \in SearchInputs : searchTerm' = v
    /\ UNCHANGED <<filterType, filterLocation, filterProduct, filterStatus,
                   filterDateFrom, filterDateTo, filterCompany,
                   storeVars, netVars>>
    /\ cleared' = FALSE
    /\ UNCHANGED otherVars

\* The options are "all" and the type facets of the current store.
SetFilterType ==
    /\ \E v \in {sAll} \cup Range(uniqueTypes) : filterType' = v
    /\ UNCHANGED <<searchTerm, filterLocation, filterProduct, filterStatus,
                   filterDateFrom, filterDateTo, filterCompany,
                   storeVars, netVars>>
    /\ cleared' = FALSE
    /\ UNCHANGED otherVars

SetFilterLocation ==
    /\ \E v \in {sAll} \cup Range(uniqueLocations) : filterLocation' = v
    /\ UNCHANGED <<searchTerm, filterType, filterProduct, filterStatus,
                   filterDateFrom, filterDateTo, filterCompany,
                   storeVars, netVars>>
    /\ cleared' = FALSE
    /\ UNCHANGED otherVars

SetFilterProduct ==
    /\ \E v \in {sAll} \cup Range(uniqueProducts) : filterProduct' = v
    /\ UNCHANGED <<searchTerm, filterType, filterLocation, filterStatus,
                   filterDateFrom, filterDateTo, filterCompany,
                   storeVars, netVars>>
    /\ cleared' = FALSE
    /\ UNCHANGED otherVars

SetFilterStatus ==
    /\ \E v \in {sAll, sChecked, sUnchecked} : filterStatus' = v
    /\ UNCHANGED <<searchTerm, filterType, filterLocation, filterProduct,
                   filterDateFrom, filterDateTo, filterCompany,
                   storeVars, netVars>>
    /\ cleared' = FALSE
    /\ UNCHANGED otherVars

SetFilterDateFrom ==
    /\ \E v \in DateFromInputs : filterDateFrom' = v
    /\ UNCHANGED <<searchTerm, filterType, filterLocation, filterProduct,
                   filterStatus, filterDateTo, filterCompany,
                   storeVars, netVars>>
    /\ cleared' = FALSE
    /\ UNCHANGED otherVars

SetFilterDateTo ==
    /\ \E v \in DateToInputs : filterDateTo' = v
    /\ UNCHANGED <<searchTerm, filterType, filterLocation, filterProduct,
                   filterStatus, filterDateFrom, filterCompany,
                   storeVars, netVars>>
    /\ cleared' = FALSE
    /\ UNCHANGED otherVars

SetFilterCompany ==
    /\ \E v \in CompanyInputs : filterCompany' = v
    /\ UNCHANGED <<searchTerm, filterType, filterLocation, filterProduct,
                   filterStatus, filterDateFrom, filterDateTo,
                   storeVars, netVars>>
    /\ cleared' = FALSE
    /\ UNCHANGED otherVars

\* clearAllFilters without setFilterCompany("").
clearAllFilters_keepsCompany ==
    /\ searchTerm' = Empty
    /\ filterType' = sAll
    /\ filterLocation' = sAll
    /\ filterProduct' = sAll
    /\ filterStatus' = sAll
    /\ filterDateFrom' = Empty
    /\ filterDateTo' = Empty
    /\ cleared' = TRUE
    /\ UNCHANGED <<filterCompany, storeVars, netVars>>
    /\ UNCHANGED otherVars

\* The "Clear All" button; cleared records that no criterion has been set
\* since.
clearAllFilters ==
    /\ searchTerm' = Empty
    /\ filterType' = sAll
    /\ filterLocation' = sAll
    /\ filterProduct' = sAll
    /\ filterStatus' = sAll
    /\ filterDateFrom' = Empty
    /\ filterDateTo' = Empty
    /\ filterCompany' = Empty
    /\ cleared' = TRUE
    /\ UNCHANGED <<storeVars, netVars>>
    /\ UNCHANGED otherVars

Next ==
    \/ RefreshData
    \/ FetchAnnouncementsOk
    \/ FetchAnnouncementsError
    \/ FetchStatsOk
    \/ FetchStatsError
    \/ SetSearchTerm
    \/ SetFilterType
    \/ SetFilterLocation
    \/ SetFilterProduct
    \/ SetFilterStatus
    \/ SetFilterDateFrom
    \/ SetFilterDateTo
    \/ SetFilterCompany
    \/ clearAllFilters

Spec == Init /\ [][Next]_vars

(***************************************************************************)
(* Export.  lastExport holds what the latest exportToCSV worked on: the    *)
(* view it read, its csvData and the csvContent it handed to the download. *)
(***************************************************************************)
\* Records whose fields hold quotes, commas, line breaks and absent contact
\* fields.
X1 == [Announcement(11, <<"A", DQ, "B">>, <<"T", "\n", "U">>, <<"d", DQ, "q">>, sFruitsBio, <<"a", ",", "b">>, sOffre, d20240115, sUrl, 1, sMailAl) EXCEPT !.tel = Undefined]

X2 == [Announcement(12, sBob, sT, sD, sFruits, sAlger, sDemande, d20240131, <<"u", ",", "2">>, 0, Empty) EXCEPT !.prenom = Undefined, !.ok = <<"o", DQ>>]

\* Arrays the announcements endpoint returns in the export behaviours.
ExportArrays == { <<R4, R5, R6, R7>>, <<X1, X2>>, <<X2, R1>> }

ExportBodies == {JArray(a) : a \in ExportArrays}

FetchAnnouncementsExport == FetchAnnouncementsFrom(ExportBodies)

\* The "Export CSV" button, enabled unless exporting or the view is empty;
\* the handler runs to its end without awaiting anything.
exportToCSV ==
    /\ ~exporting
    /\ Len(filteredAnnouncements) # 0
    /\ lastExport' = [view |-> filteredAnnouncements,
                      csvData |-> csvData(filteredAnnouncements),
                      csvContent |-> csvContent(filteredAnnouncements)]
    /\ exporting' = FALSE
    /\ UNCHANGED <<storeVars, filterVars, netVars, monitorVars, writeVars>>

NextExport ==
    \/ RefreshData
    \/ FetchAnnouncementsExport
    \/ FetchStatsOk
    \/ SetFilterType
    \/ SetFilterStatus
    \/ clearAllFilters
    \/ exportToCSV

SpecExport == Init /\ [][NextExport]_vars

(***************************************************************************)
(* Selectors over a store whose records spell a type, a location or a      *)
(* product "all", the value the selectors use for "no criterion".          *)
(***************************************************************************)
A1 == Announcement(21, sAcme, sT, sD, sFruits, sAlger, sAll, d20240115, sUrl, 0, Empty)

A2 == Announcement(22, sBob, sT, sD, sAll, sAll, sOffre, d20240115, sUrl, 0, Empty)

\* Arrays the announcements endpoint returns in the selector behaviours.
FacetArrays == { <<A1, R1>>, <<A2, R2, R3>>, <<R1, R2, R3>> }

FacetBodies == {JArray(a) : a \in FacetArrays}

FetchAnnouncementsFacets == FetchAnnouncementsFrom(FacetBodies)

NextFacets ==
    \/ RefreshData
    \/ FetchAnnouncementsFacets
    \/ FetchStatsOk
    \/ SetFilterType
    \/ SetFilterLocation
    \/ SetFilterProduct
    \/ clearAllFilters

SpecFacets == Init /\ [][NextFacets]_vars

(***************************************************************************)
(* Scrape monitor.  timers holds the intervals that are set; startPending  *)
(* the start commands whose POST /api/scrape has not settled, each named   *)
(* by the identifier its setInterval is going to return; polls[t] counts   *)
(* the status requests of timer t in flight; completions counts the        *)
(* callbacks that found running = false and wait for their                 *)
(* fetchAnnouncements (ann) or their fetchStats (stats); alert is the      *)
(* dialog on screen, which blocks the page until it is dismissed.  idleBy  *)
(* records the latest change of the scraping flag: "load", "start",        *)
(* "stop", "complete" or "error".                                          *)
(***************************************************************************)
\* No alert() dialog is open: handlers, timers and continuations can run.
Unblocked == alert = "none"

\* Bodies the announcements endpoint returns in the monitor behaviours.
MonitorBodies == {JArray(<<R1>>)}

FetchAnnouncementsMonitor ==
    /\ Unblocked
    /\ FetchAnnouncementsFrom(MonitorBodies)

FetchStatsMonitor ==
    /\ Unblocked
    /\ FetchStatsOk

\* startScraping that sets its interval before the POST has settled.
startScraping_timerAtOnce ==
    /\ Unblocked
    /\ ~scraping
    /\ startsIssued < MaxStarts
    /\ scraping' = TRUE
    /\ startsIssued' = startsIssued + 1
    /\ timers' = timers \cup {startsIssued + 1}
    /\ statusCheckInterval' = startsIssued + 1
    /\ idleBy' = "start"
    /\ UNCHANGED <<startPending, polls, completions, alert>>
    /\ UNCHANGED <<storeVars, filterVars, netVars, exportVars, writeVars>>
    /\ UNCHANGED lastPoll

\* The "Start Scraping" button (disabled while scraping), up to the await:
\* setScraping(true) and the POST is sent.
startScraping ==
    /\ Unblocked
    /\ ~scraping
    /\ startsIssued < MaxStarts
    /\ scraping' = TRUE
    /\ startsIssued' = startsIssued + 1
    /\ startPending' = startPending \cup {startsIssued + 1}
    /\ idleBy' = "start"
    /\ UNCHANGED <<statusCheckInterval, timers, polls, completions, alert>>
    /\ UNCHANGED <<storeVars, filterVars, netVars, exportVars, writeVars>>
    /\ UNCHANGED lastPoll

\* startScraping after the await: the POST resolved (whatever its status
\* code), setInterval and setStatusCheckInterval.
StartResolve ==
    /\ Unblocked
    /\ \E k \in startPending :
           /\ startPending' = startPending \ {k}
           /\ timers' = timers \cup {k}
           /\ statusCheckInterval' = k
    /\ UNCHANGED <<scraping, startsIssued, polls, completions, alert, idleBy>>
    /\ UNCHANGED <<storeVars, filterVars, netVars, exportVars, writeVars>>
    /\ UNCHANGED lastPoll

\* startScraping, catch branch: the POST rejected, setScraping(false).
StartReject ==
    /\ Unblocked
    /\ \E k \in startPending : startPending' = startPending \ {k}
    /\ scraping' = FALSE
    /\ idleBy' = "error"
    /\ UNCHANGED <<statusCheckInterval, timers, startsIssued, polls,
                   completions, alert>>
    /\ UNCHANGED <<storeVars, filterVars, netVars, exportVars, writeVars>>
    /\ UNCHANGED lastPoll

\* The status requests in flight from timers 1..n.
RECURSIVE InFlight(_)
InFlight(n) == IF n = 0 THEN 0 ELSE polls[n] + InFlight(n - 1)

\* A timer fires: its callback sends GET /api/scrape/status.
Tick ==
    /\ Unblocked
    /\ InFlight(MaxStarts) < MaxPolls
    /\ \E t \in timers :
           /\ polls' = [polls EXCEPT ![t] = polls[t] + 1]
    /\ UNCHANGED <<scraping, statusCheckInterval, timers, startsIssued,
                   startPending, completions, alert, idleBy>>
    /\ UNCHANGED <<storeVars, filterVars, netVars, exportVars, writeVars>>
    /\ UNCHANGED lastPoll

\* A status response with running = true that ends the monitor.
PollRunning_givesUp ==
    /\ Unblocked
    /\ \E t \in TimerIds :
           /\ polls[t] > 0
           /\ polls' = [polls EXCEPT ![t] = polls[t] - 1]
           /\ timers' = timers \ {t}
    /\ scraping' = FALSE
    /\ UNCHANGED <<statusCheckInterval, startsIssued, startPending,
                   completions, alert, idleBy>>
    /\ UNCHANGED <<storeVars, filterVars, netVars, exportVars, writeVars>>
    /\ lastPoll' = "running"

\* The callback of timer t after its awaits: status.running is true.
PollRunning ==
    /\ Unblocked
    /\ \E t \in TimerIds :
           /\ polls[t] > 0
           /\ polls' = [polls EXCEPT ![t] = polls[t] - 1]
    /\ UNCHANGED <<scraping, statusCheckInterval, timers, startsIssued,
                   startPending, completions, alert, idleBy>>
    /\ UNCHANGED <<storeVars, filterVars, netVars, exportVars, writeVars>>
    /\ lastPoll' = "running"

\* A failed status request that ends the monitor.
PollFail_stopsMonitor ==
    /\ Unblocked
    /\ \E t \in TimerIds :
           /\ polls[t] > 0
           /\ polls' = [polls EXCEPT ![t] = polls[t] - 1]
           /\ timers' = timers \ {t}
    /\ scraping' = FALSE
    /\ lastPoll' = "failed"
    /\ UNCHANGED <<statusCheckInterval, startsIssued, startPending,
                   completions, alert, idleBy>>
    /\ UNCHANGED <<storeVars, filterVars, netVars, exportVars, writeVars>>

\* The callback of timer t after its awaits: the request or response.json()
\* rejected; the callback ends there and the interval stays set.
PollFail ==
    /\ Unblocked
    /\ \E t \in TimerIds :
           /\ polls[t] > 0
           /\ polls' = [polls EXCEPT ![t] = polls[t] - 1]
    /\ UNCHANGED <<scraping, statusCheckInterval, timers, startsIssued,
                   startPending, completions, alert, idleBy>>
    /\ UNCHANGED <<storeVars, filterVars, netVars, exportVars, writeVars>>
    /\ lastPoll' = "failed"

\* The callback of timer t after its awaits: status.running is false, so
\* clearInterval(checkStatus), setScraping(false) and fetchAnnouncements()
\* is awaited.
PollFinished ==
    /\ Unblocked
    /\ \E t \in TimerIds :
           /\ polls[t] > 0
           /\ polls' = [polls EXCEPT ![t] = polls[t] - 1]
           /\ timers' = timers \ {t}
    /\ scraping' = FALSE
    /\ completions' = [completions EXCEPT !.ann = completions.ann + 1]
    /\ idleBy' = "complete"
    /\ UNCHANGED <<statusCheckInterval, startsIssued, startPending, alert>>
    /\ UNCHANGED <<storeVars, filterVars, netVars, exportVars, writeVars>>
    /\ lastPoll' = "finished"

\* The awaited fetchAnnouncements() of a callback settles (it catches its
\* own errors), and the callback calls fetchStats().
CompletionStoreSettled ==
    /\ Unblocked
    /\ completions.ann > 0
    /\ \/ \E data \in MonitorBodies :
              /\ announcements' = StoreOf(data)
              /\ lastFetch' = data.tag
       \/ /\ announcements' = JArray(<<>>)
          /\ lastFetch' = "error"
    /\ loading' = FALSE
    /\ completions' = [ann |-> completions.ann - 1,
                       stats |-> completions.stats + 1]
    /\ UNCHANGED <<scraping, statusCheckInterval, timers, startsIssued,
                   startPending, polls, alert, idleBy>>
    /\ UNCHANGED <<stats, filterVars, netVars, exportVars, writeVars>>
    /\ UNCHANGED lastPoll

\* The awaited fetchStats() of a callback settles (it catches its own
\* errors), and the callback opens alert(status.message + ...).
CompletionStatsSettled ==
    /\ Unblocked
    /\ completions.stats > 0
    /\ \/ \E data \in StatsBodies : stats' = data
       \/ UNCHANGED stats
    /\ completions' = [completions EXCEPT !.stats = completions.stats - 1]
    /\ alert' = "completed"
    /\ UNCHANGED <<scraping, statusCheckInterval, timers, startsIssued,
                   startPending, polls, idleBy>>
    /\ UNCHANGED <<announcements, loading, lastFetch, filterVars, netVars,
                   exportVars, writeVars>>
    /\ UNCHANGED lastPoll

\* The completion dialog is dismissed: window.location.reload() discards
\* the page with its timers and requests and mounts the component anew.
Reload ==
    /\ alert = "completed"
    /\ announcements' = JArray(<<>>)
    /\ stats' = InitialStats
    /\ loading' = TRUE
    /\ lastFetch' = "none"
    /\ searchTerm' = Empty
    /\ filterType' = sAll
    /\ filterLocation' = sAll
    /\ filterProduct' = sAll
    /\ filterStatus' = sAll
    /\ filterDateFrom' = Empty
    /\ filterDateTo' = Empty
    /\ filterCompany' = Empty
    /\ annPending' = 1
    /\ statsPending' = 1
    /\ exporting' = FALSE
    /\ lastExport' = NoExport
    /\ scraping' = FALSE
    /\ statusCheckInterval' = 0
    /\ timers' = {}
    /\ startsIssued' = 0
    /\ startPending' = {}
    /\ polls' = [t \in TimerIds |-> 0]
    /\ completions' = [ann |-> 0, stats |-> 0]
    /\ alert' = "none"
    /\ idleBy' = "load"
    /\ lastPoll' = "none"
    /\ cleared' = FALSE
    /\ toggles' = {}
    /\ saves' = {}
    /\ editingContact' = 0
    /\ contactForm' = EmptyForm
    /\ lastWrite' = NoWrite
    /\ annInFlight' = {}
    /\ reqSeq' = 0
    /\ arrivals' = <<>>
    /\ writeSeq' = 0

\* The "Stop Scraping" button, rendered while scraping: the interval held in
\* the statusCheckInterval state, if any, is cleared; setScraping(false);
\* fetchAnnouncements() and fetchStats() are called without await; alert().
stopScraping ==
    /\ Unblocked
    /\ scraping
    /\ annPending < MaxPending
    /\ statsPending < MaxPending
    /\ timers' = IF statusCheckInterval # 0
                 THEN timers \ {statusCheckInterval}
                 ELSE timers
    /\ statusCheckInterval' = 0
    /\ scraping' = FALSE
    /\ annPending' = annPending + 1
    /\ statsPending' = statsPending + 1
    /\ alert' = "stopped"
    /\ idleBy' = "stop"
    /\ UNCHANGED <<startsIssued, startPending, polls, completions>>
    /\ UNCHANGED <<storeVars, filterVars, exportVars, writeVars>>
    /\ UNCHANGED lastPoll

\* The dialog of stopScraping is dismissed; the handler ends.
DismissAlert ==
    /\ alert = "stopped"
    /\ alert' = "none"
    /\ UNCHANGED <<scraping, statusCheckInterval, timers, startsIssued,
                   startPending, polls, completions, idleBy>>
    /\ UNCHANGED <<storeVars, filterVars, netVars, exportVars, writeVars>>
    /\ UNCHANGED lastPoll

NextMonitor ==
    \/ FetchAnnouncementsMonitor
    \/ FetchStatsMonitor
    \/ startScraping
    \/ StartResolve
    \/ StartReject
    \/ Tick
    \/ PollRunning
    \/ PollFail
    \/ PollFinished
    \/ CompletionStoreSettled
    \/ CompletionStatsSettled
    \/ Reload
    \/ stopScraping
    \/ DismissAlert

SpecMonitor == Init /\ [][NextMonitor]_vars

(***************************************************************************)
(* Local updates and overlapping refreshes.  toggles and saves hold the    *)
(* check-toggle and contact-save calls whose PUT has not settled, each     *)
(* with the values its closure captured when it was called: the record id, *)
(* the new flag or the form, and the announcements array of that render    *)
(* (snapshot).  lastWrite records the call that ended last: how it ended   *)
(* (op), the call (req) and the toggles still in flight then (rest).       *)
(* annInFlight holds the fetchAnnouncements calls of "Refresh Data" clicks *)
(* in flight, numbered by reqSeq in the order of the clicks; arrivals      *)
(* lists their responses in the order of arrival; writeSeq counts the      *)
(* check-toggle and contact-save calls.                                    *)
(***************************************************************************)
sTel == <<"0", "5">>

\* Values typed into the inputs of the contact form, and the inputs typed in.
ContactInputs == {sTel}

TypedFields == {"tel"}

\* Arrays the announcements endpoint returns in these behaviours.
WriteArrays == { <<R1, R2>>, <<R2, R3>> }

WriteBodies == {JArray(a) : a \in WriteArrays}

FetchAnnouncementsWrites ==
    /\ Unblocked
    /\ FetchAnnouncementsFrom(WriteBodies)

FetchStatsWrites ==
    /\ Unblocked
    /\ FetchStatsOk

RefreshDataWrites ==
    /\ Unblocked
    /\ RefreshData

\* The "Refresh Data" button, its fetchAnnouncements call numbered.
RefreshDataTracked ==
    /\ Unblocked
    /\ reqSeq < MaxRequests
    /\ statsPending < MaxPending
    /\ reqSeq' = reqSeq + 1
    /\ annInFlight' = annInFlight \cup {reqSeq + 1}
    /\ statsPending' = statsPending + 1
    /\ UNCHANGED <<storeVars, filterVars, annPending, exportVars, monitorVars>>
    /\ UNCHANGED <<toggles, saves, editingContact, contactForm, lastWrite,
                   arrivals, writeSeq>>

\* A response is dropped when a call issued later has been answered.
RefreshArrives_newestWins ==
    /\ Unblocked
    /\ \E r \in annInFlight : \E data \in WriteBodies :
           /\ announcements' =
                  IF \E k \in 1..Len(arrivals) : arrivals[k].req > r
                  THEN announcements
                  ELSE StoreOf(data)
           /\ lastFetch' = data.tag
           /\ annInFlight' = annInFlight \ {r}
           /\ arrivals' = Append(arrivals, [req |-> r, data |-> data])
    /\ loading' = FALSE
    /\ UNCHANGED <<stats, filterVars, netVars, exportVars, monitorVars>>
    /\ UNCHANGED <<toggles, saves, editingContact, contactForm, lastWrite,
                   reqSeq, writeSeq>>

\* fetchAnnouncements of a "Refresh Data" click: the response arrived and
\* its body parsed as data.
RefreshArrives ==
    /\ Unblocked
    /\ \E r \in annInFlight : \E data \in WriteBodies :
           /\ announcements' = StoreOf(data)
           /\ lastFetch' = data.tag
           /\ annInFlight' = annInFlight \ {r}
           /\ arrivals' = Append(arrivals, [req |-> r, data |-> data])
    /\ loading' = FALSE
    /\ UNCHANGED <<stats, filterVars, netVars, exportVars, monitorVars>>
    /\ UNCHANGED <<toggles, saves, editingContact, contactForm, lastWrite,
                   reqSeq, writeSeq>>

\* fetchAnnouncements of a "Refresh Data" click, catch branch: the request
\* or response.json() rejected.
RefreshFails ==
    /\ Unblocked
    /\ \E r \in annInFlight :
           /\ annInFlight' = annInFlight \ {r}
           /\ arrivals' = Append(arrivals, [req |-> r, data |-> JArray(<<>>)])
    /\ announcements' = JArray(<<>>)
    /\ lastFetch' = "error"
    /\ loading' = FALSE
    /\ UNCHANGED <<stats, filterVars, netVars, exportVars, monitorVars>>
    /\ UNCHANGED <<toggles, saves, editingContact, contactForm, lastWrite,
                   reqSeq, writeSeq>>

\* The record of the view, if any, whose row shows the contact form.
EditingRows == {i \in 1..Len(filteredAnnouncements) :
                   filteredAnnouncements[i].id = editingContact}

\* announcements.map((a) => a.id === id ? { ...a, checked: newChecked } : a)
\* over the array the closure holds.
withChecked(snapshot, id, newChecked) ==
    JArray([i \in 1..Len(snapshot.items) |->
               IF snapshot.items[i].id = id
               THEN [snapshot.items[i] EXCEPT !.checked = newChecked]
               ELSE snapshot.items[i]])

\* { ...a, ...form }
spread(a, form) ==
    [a EXCEPT !.prenom = form.prenom, !.adresse = form.adresse,
              !.cod_postal = form.cod_postal, !.ville = form.ville,
              !.mail = form.mail, !.tel = form.tel,
              !.web_site = form.web_site, !.ok = form.ok]

\* announcements.map((a) => (a.id === id ? { ...a, ...contactForm } : a))
\* over the array the closure holds.
withContact(snapshot, id, form) ==
    JArray([i \in 1..Len(snapshot.items) |->
               IF snapshot.items[i].id = id
               THEN spread(snapshot.items[i], form)
               ELSE snapshot.items[i]])

\* The checkbox of a row of the table: toggleCheck(id, checked) up to its
\* await; the PUT is sent.
toggleCheck ==
    /\ Unblocked
    /\ ~loading
    /\ writeSeq < MaxWrites
    /\ writeSeq' = writeSeq + 1
    /\ \E i \in 1..Len(filteredAnnouncements) :
           toggles' = toggles \cup
               {[id |-> filteredAnnouncements[i].id,
                 newChecked |-> IF filteredAnnouncements[i].checked = 1
                                THEN 0 ELSE 1,
                 snapshot |-> announcements]}
    /\ toggles' # toggles
    /\ UNCHANGED <<storeVars, filterVars, netVars, exportVars, monitorVars>>
    /\ UNCHANGED <<saves, editingContact, contactForm, lastWrite,
                   annInFlight, reqSeq, arrivals>>

\* toggleCheck after its await: the PUT resolved (whatever its status code);
\* setAnnouncements(announcements.map(...)) and fetchStats().
ToggleResolve ==
    /\ Unblocked
    /\ statsPending < MaxPending
    /\ \E q \in toggles :
           /\ announcements' = withChecked(q.snapshot, q.id, q.newChecked)
           /\ toggles' = toggles \ {q}
           /\ lastWrite' = [op |-> "toggle", req |-> q, rest |-> toggles \ {q}]
    /\ statsPending' = statsPending + 1
    /\ UNCHANGED <<stats, loading, lastFetch, filterVars, annPending,
                   exportVars, monitorVars>>
    /\ UNCHANGED <<saves, editingContact, contactForm, annInFlight, reqSeq,
                   arrivals, writeSeq>>

\* The catch branch applying the change all the same.
ToggleReject_appliesChange ==
    /\ Unblocked
    /\ \E q \in toggles :
           /\ announcements' = withChecked(q.snapshot, q.id, q.newChecked)
           /\ toggles' = toggles \ {q}
           /\ lastWrite' = [op |-> "toggleFail", req |-> q,
                            rest |-> toggles \ {q}]
    /\ UNCHANGED <<stats, loading, lastFetch, filterVars, netVars,
                   exportVars, monitorVars>>
    /\ UNCHANGED <<saves, editingContact, contactForm, annInFlight, reqSeq,
                   arrivals, writeSeq>>

\* toggleCheck, catch branch: the PUT rejected; console.error only.
ToggleReject ==
    /\ Unblocked
    /\ \E q \in toggles :
           /\ toggles' = toggles \ {q}
           /\ lastWrite' = [op |-> "toggleFail", req |-> q,
                            rest |-> toggles \ {q}]
    /\ UNCHANGED <<storeVars, filterVars, netVars, exportVars, monitorVars>>
    /\ UNCHANGED <<saves, editingContact, contactForm, annInFlight, reqSeq,
                   arrivals, writeSeq>>

\* The "edit" button of a row: the form takes the record's contact fields.
startEditingContact ==
    /\ Unblocked
    /\ ~loading
    /\ \E i \in 1..Len(filteredAnnouncements) :
           LET a == filteredAnnouncements[i]
           IN  /\ editingContact' = a.id
               /\ contactForm' =
                      [prenom |-> OrEmpty(a.prenom),
                       adresse |-> OrEmpty(a.adresse),
                       cod_postal |-> OrEmpty(a.cod_postal),
                       ville |-> OrEmpty(a.ville),
                       mail |-> OrEmpty(a.mail),
                       tel |-> OrEmpty(a.tel),
                       web_site |-> OrEmpty(a.web_site),
                       ok |-> OrEmpty(a.ok)]
    /\ UNCHANGED <<storeVars, filterVars, netVars, exportVars, monitorVars>>
    /\ UNCHANGED <<toggles, saves, lastWrite, annInFlight, reqSeq, arrivals, writeSeq>>

\* An input of the form shown in the row of the record in editing mode.
SetContactForm ==
    /\ Unblocked
    /\ ~loading
    /\ EditingRows # {}
    /\ \E f \in TypedFields : \E v \in ContactInputs :
           contactForm' = [contactForm EXCEPT ![f] = v]
    /\ UNCHANGED <<storeVars, filterVars, netVars, exportVars, monitorVars>>
    /\ UNCHANGED <<toggles, saves, editingContact, lastWrite, annInFlight,
                   reqSeq, arrivals, writeSeq>>

\* The "save" button of the form: saveContactInfo(id) up to its await.
saveContactInfo ==
    /\ Unblocked
    /\ ~loading
    /\ EditingRows # {}
    /\ writeSeq < MaxWrites
    /\ writeSeq' = writeSeq + 1
    /\ saves' = saves \cup {[id |-> editingContact, form |-> contactForm,
                             snapshot |-> announcements]}
    /\ saves' # saves
    /\ UNCHANGED <<storeVars, filterVars, netVars, exportVars, monitorVars>>
    /\ UNCHANGED <<toggles, editingContact, contactForm, lastWrite,
                   annInFlight, reqSeq, arrivals>>

\* saveContactInfo that keeps the form and the editing mode.
SaveResolve_keepsForm ==
    /\ Unblocked
    /\ \E q \in saves :
           /\ announcements' = withContact(q.snapshot, q.id, q.form)
           /\ saves' = saves \ {q}
           /\ lastWrite' = [op |-> "save", req |-> q, rest |-> toggles]
    /\ UNCHANGED <<stats, loading, lastFetch, filterVars, netVars,
                   exportVars, monitorVars>>
    /\ UNCHANGED <<toggles, editingContact, contactForm, annInFlight, reqSeq,
                   arrivals, writeSeq>>

\* saveContactInfo after its await: the PUT resolved (whatever its status
\* code); the record is patched, editing ends and the form is emptied.
SaveResolve ==
    /\ Unblocked
    /\ \E q \in saves :
           /\ announcements' = withContact(q.snapshot, q.id, q.form)
           /\ saves' = saves \ {q}
           /\ lastWrite' = [op |-> "save", req |-> q, rest |-> toggles]
    /\ editingContact' = 0
    /\ contactForm' = EmptyForm
    /\ UNCHANGED <<stats, loading, lastFetch, filterVars, netVars,
                   exportVars, monitorVars>>
    /\ UNCHANGED <<toggles, annInFlight, reqSeq, arrivals, writeSeq>>

\* saveContactInfo, catch branch: the PUT rejected; console.error and alert.
SaveReject ==
    /\ Unblocked
    /\ \E q \in saves :
           /\ saves' = saves \ {q}
           /\ lastWrite' = [op |-> "saveFail", req |-> q, rest |-> toggles]
    /\ alert' = "saveError"
    /\ UNCHANGED <<scraping, statusCheckInterval, timers, startsIssued,
                   startPending, polls, completions, idleBy, lastPoll>>
    /\ UNCHANGED <<storeVars, filterVars, netVars, exportVars>>
    /\ UNCHANGED <<toggles, editingContact, contactForm, annInFlight, reqSeq,
                   arrivals, writeSeq>>

\* The dialog of saveContactInfo is dismissed; the handler ends.
DismissSaveAlert ==
    /\ alert = "saveError"
    /\ alert' = "none"
    /\ UNCHANGED <<scraping, statusCheckInterval, timers, startsIssued,
                   startPending, polls, completions, idleBy, lastPoll>>
    /\ UNCHANGED <<storeVars, filterVars, netVars, exportVars, writeVars>>

\* The "cancel" button of the form.
cancelEditing ==
    /\ Unblocked
    /\ ~loading
    /\ EditingRows # {}
    /\ editingContact' = 0
    /\ contactForm' = EmptyForm
    /\ UNCHANGED <<storeVars, filterVars, netVars, exportVars, monitorVars>>
    /\ UNCHANGED <<toggles, saves, lastWrite, annInFlight, reqSeq, arrivals, writeSeq>>

NextRefresh ==
    \/ FetchAnnouncementsWrites
    \/ FetchStatsWrites
    \/ RefreshDataTracked
    \/ RefreshArrives
    \/ RefreshFails

SpecRefresh == Init /\ [][NextRefresh]_vars

NextWrites ==
    \/ FetchAnnouncementsWrites
    \/ FetchStatsWrites
    \/ RefreshDataWrites
    \/ toggleCheck
    \/ ToggleResolve
    \/ ToggleReject
    \/ startEditingContact
    \/ SetContactForm
    \/ saveContactInfo
    \/ SaveResolve
    \/ SaveReject
    \/ DismissSaveAlert
    \/ cancelEditing

SpecWrites == Init /\ [][NextWrites]_vars

(***************************************************************************)
(* Vocabulary of the properties.  These definitions state the contract of  *)
(* section 4.1 directly on characters and calendar dates; they use none of *)
(* the operators that model the code of the Filter Engine.                 *)
(***************************************************************************)
Store == announcements.items

View == filteredAnnouncements

InStore(r) == \E i \in 1..Len(Store) : Store[i] = r

InView(r) == \E i \in 1..Len(View) : View[i] = r

\* needle occurs in hay when upper and lower case are not distinguished.
CIContains(hay, needle) ==
    \E off \in 0..(Len(hay) - Len(needle)) :
        \A j \in 1..Len(needle) :
            LowerChar(hay[off + j]) = LowerChar(needle[j])

\* The calendar date <<year, month, day>> a date string of the pools
\* denotes; <<>> for a string that denotes none.
CalendarOf(s) ==
    CASE s = d20231231 -> <<2023, 12, 31>>
      [] s = d20240101 -> <<2024, 1, 1>>
      [] s = d20240115 -> <<2024, 1, 15>>
      [] s = d20240131 -> <<2024, 1, 31>>
      [] s = d20240201 -> <<2024, 2, 1>>
      [] OTHER -> <<>>

Parseable(s) == CalendarOf(s) # <<>>

\* Calendar date p is the same day as q or an earlier one.
NotAfter(p, q) ==
    \/ p[1] < q[1]
    \/ (p[1] = q[1] /\ p[2] < q[2])
    \/ (p[1] = q[1] /\ p[2] = q[2] /\ p[3] <= q[3])

SatSearch(r) ==
    \/ searchTerm = Empty
    \/ \E f \in {r.announcement_title, r.description, r.location,
                 r.products, r.company_name} : CIContains(f, searchTerm)

SatType(r) == filterType = sAll \/ r.announcement_type = filterType

SatLocation(r) == filterLocation = sAll \/ r.location = filterLocation

SatProduct(r) == filterProduct = sAll \/ CIContains(r.products, filterProduct)

SatStatus(r) ==
    CASE filterStatus = sAll -> TRUE
      [] filterStatus = sChecked -> r.checked = 1
      [] filterStatus = sUnchecked -> r.checked = 0
      [] OTHER -> FALSE

SatDateFrom(r) ==
    \/ filterDateFrom = Empty
    \/ /\ Parseable(r.announcement_date)
       /\ Parseable(filterDateFrom)
       /\ NotAfter(CalendarOf(filterDateFrom), CalendarOf(r.announcement_date))

SatDateTo(r) ==
    \/ filterDateTo = Empty
    \/ /\ Parseable(r.announcement_date)
       /\ Parseable(filterDateTo)
       /\ NotAfter(CalendarOf(r.announcement_date), CalendarOf(filterDateTo))

SatCompany(r) ==
    filterCompany = Empty \/ CIContains(r.company_name, filterCompany)

SatAllEight(r) ==
    /\ SatSearch(r) /\ SatType(r) /\ SatLocation(r) /\ SatProduct(r)
    /\ SatStatus(r) /\ SatDateFrom(r) /\ SatDateTo(r) /\ SatCompany(r)

DefaultSearch == searchTerm = Empty

DefaultType == filterType = sAll

DefaultLocation == filterLocation = sAll

DefaultProduct == filterProduct = sAll

DefaultStatus == filterStatus = sAll

DefaultDateFrom == filterDateFrom = Empty

DefaultDateTo == filterDateTo = Empty

DefaultCompany == filterCompany = Empty

AllDefaults ==
    /\ DefaultSearch /\ DefaultType /\ DefaultLocation /\ DefaultProduct
    /\ DefaultStatus /\ DefaultDateFrom /\ DefaultDateTo /\ DefaultCompany

\* v is obtained from s by deleting elements.
RECURSIVE IsSubsequence(_, _)
IsSubsequence(v, s) ==
    IF v = <<>> THEN TRUE
    ELSE IF s = <<>> THEN FALSE
    ELSE IF Head(v) = Head(s) THEN IsSubsequence(Tail(v), Tail(s))
    ELSE IsSubsequence(v, Tail(s))

(***************************************************************************)
(* Properties.                                                             *)
(***************************************************************************)
\* C1: a record of the store is in the Filtered View if and only if it
\* satisfies all eight sub-predicates of section 4.1 at once.
C1_ViewIffAllEight ==
    /\ \A i \in 1..Len(Store) : InView(Store[i]) <=> SatAllEight(Store[i])
    /\ \A i \in 1..Len(View) : InStore(View[i])

\* C1 witness: all eight criteria are active, one record satisfies them all
\* and is shown, the other records of the store fail some and are absent.
C1_Witness ==
    /\ ~DefaultSearch /\ ~DefaultType /\ ~DefaultLocation /\ ~DefaultProduct
    /\ ~DefaultStatus /\ ~DefaultDateFrom /\ ~DefaultDateTo /\ ~DefaultCompany
    /\ Len(Store) = 3
    /\ View = <<R1>>

\* C2: with all eight criteria at their defaults the Filtered View is the
\* whole store, same records in the same order.
C2_DefaultsShowAll == AllDefaults => View = Store

\* C2 witness: defaults, and the store holds a record whose date does not
\* parse next to records whose date does.
C2_Witness ==
    /\ AllDefaults
    /\ Store = <<R1, R2, R3>>
    /\ ~Parseable(R3.announcement_date)
    /\ View = Store

\* C3: the Filtered View is a subsequence of the store: unmodified records
\* of the store, none more often than in the store, in the store's order.
C3_ViewIsSubsequence ==
    /\ IsSubsequence(View, Store)
    /\ \A i \in 1..Len(View) : InStore(View[i])
    /\ Len(View) <= Len(Store)

\* C3 witness: the view keeps two records that are not adjacent in the
\* store and drops others.
C3_Witness ==
    /\ Store = <<R4, R5, R6, R7>>
    /\ View = <<R4, R7>>

\* The seven criteria other than the named one are at their defaults.
OnlyProductActive ==
    /\ DefaultSearch /\ DefaultType /\ DefaultLocation /\ DefaultStatus
    /\ DefaultDateFrom /\ DefaultDateTo /\ DefaultCompany

OnlySearchActive ==
    /\ DefaultType /\ DefaultLocation /\ DefaultProduct /\ DefaultStatus
    /\ DefaultDateFrom /\ DefaultDateTo /\ DefaultCompany

OnlyTypeLocationActive ==
    /\ DefaultSearch /\ DefaultProduct /\ DefaultStatus
    /\ DefaultDateFrom /\ DefaultDateTo /\ DefaultCompany

OnlyDatesActive ==
    /\ DefaultSearch /\ DefaultType /\ DefaultLocation /\ DefaultProduct
    /\ DefaultStatus /\ DefaultCompany

\* C4: the product criterion matches a record iff it is "all" or the
\* selected product occurs, case-insensitively, anywhere in the raw products
\* string; when it is the only active criterion the view is exactly the
\* records it matches.
C4_ProductIsRawSubstring ==
    \A i \in 1..Len(Store) :
        /\ matchesProduct(Store[i]) <=> SatProduct(Store[i])
        /\ InView(Store[i]) => SatProduct(Store[i])
        /\ OnlyProductActive => (InView(Store[i]) <=> SatProduct(Store[i]))

\* C4 witness: "Bio" is selected; "Fruits, Bio" matches through its second
\* segment and "Salty bio" through a part of its only segment, in another
\* case.
C4_Witness ==
    /\ filterProduct = sBio
    /\ OnlyProductActive
    /\ Store = <<R6, R1>>
    /\ R1.products = sFruitsBio /\ R6.products = sSaltyBio
    /\ View = <<R6, R1>>

\* C5: the search criterion matches a record iff the text is empty or occurs,
\* case-insensitively, in the title, description, location, products or
\* company name; no other field counts.
C5_SearchFiveFields ==
    \A i \in 1..Len(Store) :
        /\ matchesSearch(Store[i]) <=> SatSearch(Store[i])
        /\ InView(Store[i]) => SatSearch(Store[i])
        /\ OnlySearchActive => (InView(Store[i]) <=> SatSearch(Store[i]))

\* C5 witness: "AL" is searched; three records match through title,
\* description and products, the record with "al" only in its URL and mail
\* does not.
C5_Witness ==
    /\ searchTerm = sAL
    /\ OnlySearchActive
    /\ Store = <<R4, R5, R6, R7>>
    /\ CIContains(R7.announcement_url, sAL) /\ CIContains(R7.mail, sAL)
    /\ View = <<R4, R5, R6>>

\* C6: the type and the location criterion match every record when "all"
\* and otherwise exactly the records whose type, resp. location, is the
\* selected string, character for character.
C6_TypeLocationExact ==
    \A i \in 1..Len(Store) :
        /\ matchesType(Store[i]) <=> SatType(Store[i])
        /\ matchesLocation(Store[i]) <=> SatLocation(Store[i])
        /\ InView(Store[i]) => (SatType(Store[i]) /\ SatLocation(Store[i]))
        /\ OnlyTypeLocationActive =>
               (InView(Store[i]) <=> (SatType(Store[i]) /\ SatLocation(Store[i])))

\* C6 witness: type "Offre" and location "alger" are selected; the "Demande"
\* record and the "Offre" record located in "Alger" are both dropped.
C6_Witness ==
    /\ filterType = sOffre
    /\ filterLocation = sAlger
    /\ OnlyTypeLocationActive
    /\ Store = <<R1, R2, R3>>
    /\ R2.announcement_type = sOffre /\ R2.location = sAlgerCap
    /\ R3.announcement_type = sDemande
    /\ View = <<R1>>

\* The view the current store and the other seven criteria give for a
\* selected status.
ViewUnderStatus(status) ==
    LET Keep(a) ==
            /\ matchesSearch(a) /\ matchesType(a) /\ matchesLocation(a)
            /\ matchesProduct(a) /\ matchesStatusFor(status, a)
            /\ matchesDateFrom(a) /\ matchesDateTo(a) /\ matchesCompany(a)
    IN  SelectSeq(Store, Keep)

Flags01 == \A i \in 1..Len(Store) : Store[i].checked \in {0, 1}

\* C7: status "all" matches every record, "checked" exactly those with
\* checked = 1, "unchecked" exactly those with checked = 0; when all flags
\* are 0 or 1 the checked and the unchecked view are disjoint and together
\* hold every record of the "all" view.
C7_StatusPartition ==
    LET A == Range(ViewUnderStatus(sAll))
        C == Range(ViewUnderStatus(sChecked))
        U == Range(ViewUnderStatus(sUnchecked))
    IN  /\ \A i \in 1..Len(Store) :
               matchesStatus(Store[i]) <=> SatStatus(Store[i])
        /\ ViewUnderStatus(filterStatus) = View
        /\ C = {r \in A : r.checked = 1}
        /\ U = {r \in A : r.checked = 0}
        /\ Flags01 => (C \cap U = {} /\ C \cup U = A)

\* C7 witness: flags all 0 or 1, "checked" selected, and both the checked
\* and the unchecked view are non-empty.
C7_Witness ==
    /\ Flags01
    /\ filterStatus = sChecked
    /\ View = <<R1>>
    /\ ViewUnderStatus(sUnchecked) = <<R2, R3>>

\* C8: with parseable dates, a non-empty date-from keeps exactly the records
\* dated on or after it and a non-empty date-to exactly those dated on or
\* before it; an empty bound keeps every record.
C8_DateRangeInclusive ==
    \A i \in 1..Len(Store) :
        LET r == Store[i]
            d == CalendarOf(r.announcement_date)
        IN  /\ DefaultDateFrom => matchesDateFrom(r)
            /\ DefaultDateTo => matchesDateTo(r)
            /\ (Parseable(r.announcement_date) /\ Parseable(filterDateFrom)) =>
                   (matchesDateFrom(r) <=> NotAfter(CalendarOf(filterDateFrom), d))
            /\ (Parseable(r.announcement_date) /\ Parseable(filterDateTo)) =>
                   (matchesDateTo(r) <=> NotAfter(d, CalendarOf(filterDateTo)))
            /\ InView(r) => (SatDateFrom(r) /\ SatDateTo(r))
            /\ OnlyDatesActive =>
                   (InView(r) <=> (SatDateFrom(r) /\ SatDateTo(r)))

\* C8 witness: from 2024-01-01 to 2024-01-31; the records dated exactly on
\* the two bounds are kept, the one dated the day before is dropped.
C8_Witness ==
    /\ filterDateFrom = d20240101
    /\ filterDateTo = d20240131
    /\ OnlyDatesActive
    /\ Store = <<R4, R5, R6, R7>>
    /\ R4.announcement_date = d20240131
    /\ R5.announcement_date = d20240101
    /\ R6.announcement_date = d20231231
    /\ View = <<R4, R5>>

\* C9: a record whose date does not parse is absent whenever date-from or
\* date-to is non-empty, and a non-empty bound that does not parse leaves
\* the view empty.
C9_UnparseableFailsBound ==
    /\ \A i \in 1..Len(Store) :
           (~Parseable(Store[i].announcement_date)
              /\ (~DefaultDateFrom \/ ~DefaultDateTo)) => ~InView(Store[i])
    /\ (~DefaultDateFrom /\ ~Parseable(filterDateFrom)) => View = <<>>
    /\ (~DefaultDateTo /\ ~Parseable(filterDateTo)) => View = <<>>

\* C9 witness: only a parseable date-from is set; the record dated "n/a" is
\* dropped although the other records pass.
C9_Witness ==
    /\ filterDateFrom = d20240101
    /\ OnlyDatesActive /\ DefaultDateTo
    /\ Store = <<R1, R2, R3>>
    /\ R3.announcement_date = sNA
    /\ View = <<R1, R2>>

PoolRecords == UNION {Range(a) : a \in AnnouncementArrays}

\* C10: the store is always an array of records; a body that is no array and
\* a failed fetch leave it empty; an empty store gives an empty view.
C10_StoreIsAlwaysArray ==
    /\ isArray(announcements)
    /\ \A i \in 1..Len(Store) : Store[i] \in PoolRecords
    /\ lastFetch = "object" => Store = <<>>
    /\ Store = <<>> => View = <<>>

\* C10 witness: the latest fetch parsed a body that is no array, criteria
\* are active, and the view is empty.
C10_Witness ==
    /\ lastFetch = "object"
    /\ ~DefaultSearch /\ ~DefaultStatus /\ ~DefaultDateFrom
    /\ Store = <<>>
    /\ View = <<>>

\* The positions at which a comma-separated segment of s starts: the first
\* position and the one after each comma.
SegmentStarts(s) == {1} \cup {k + 1 : k \in {n \in 1..Len(s) : s[n] = ","}}

\* The last position of the segment of s that starts at i (i - 1 when the
\* segment is empty).
SegmentEnd(s, i) ==
    CHOOSE j \in (i - 1)..Len(s) :
        /\ \A k \in i..j : s[k] # ","
        /\ j = Len(s) \/ s[j + 1] = ","

\* The segment of s that starts at i, from its first to its last character
\* that is no blank; empty when it has none.
TokenAt(s, i) ==
    LET inked == {k \in i..SegmentEnd(s, i) : s[k] # " "}
    IN  IF inked = {} THEN Empty
        ELSE SubSeq(s, CHOOSE k \in inked : \A m \in inked : k <= m,
                       CHOOSE k \in inked : \A m \in inked : k >= m)

\* The trimmed segments of the products field of record r.
TokensOf(r) == {TokenAt(r.products, i) : i \in SegmentStarts(r.products)}

NoDuplicates(list) ==
    \A i, j \in 1..Len(list) : i # j => list[i] # list[j]

\* C11: the three facet lists hold no empty entry and no duplicate; the
\* product facets are exactly the non-empty trimmed segments of the products
\* fields of the store, the type and location facets exactly the non-empty
\* types and locations.
C11_FacetsAreTrimmedSegments ==
    /\ Empty \notin Range(uniqueTypes)
    /\ Empty \notin Range(uniqueLocations)
    /\ Empty \notin Range(uniqueProducts)
    /\ NoDuplicates(uniqueTypes)
    /\ NoDuplicates(uniqueLocations)
    /\ NoDuplicates(uniqueProducts)
    /\ Range(uniqueTypes) =
           {Store[k].announcement_type : k \in 1..Len(Store)} \ {Empty}
    /\ Range(uniqueLocations) =
           {Store[k].location : k \in 1..Len(Store)} \ {Empty}
    /\ Range(uniqueProducts) =
           UNION {TokensOf(Store[k]) : k \in 1..Len(Store)} \ {Empty}

\* C11 witness: "Fruits, Bio", "Fruits" and "" give the two tokens "Fruits"
\* and "Bio"; the empty location of the third record gives no facet.
C11_Witness ==
    /\ Store = <<R1, R2, R3>>
    /\ R1.products = sFruitsBio /\ R2.products = sFruits /\ R3.products = Empty
    /\ R3.location = Empty
    /\ uniqueProducts = <<sFruits, sBio>>
    /\ uniqueLocations = <<sAlger, sAlgerCap>>
    /\ uniqueTypes = <<sOffre, sDemande>>

(***************************************************************************)
(* Vocabulary of the export properties: the standard reading of a          *)
(* comma-separated payload and the values a record is to export.           *)
(***************************************************************************)
Malformed == [ok |-> FALSE, rows |-> <<>>]

\* The positions of text in ascending order that satisfy nothing but being
\* members of set.
Ascending(set, n) == SelectSeq([k \in 1..n |-> k], LAMBDA k : k \in set)

\* The double quotes of text and its separators: a comma or line break is a
\* separator when an even number of double quotes stands before it, that is
\* when it is outside every quoted field.
QuotesOf(text) == {k \in 1..Len(text) : text[k] = DQ}

Outside(text, k) == Cardinality({j \in QuotesOf(text) : j < k}) % 2 = 0

RowBreaks(text) == {k \in 1..Len(text) : text[k] = "\n" /\ Outside(text, k)}

FieldBreaks(text) == {k \in 1..Len(text) : text[k] = "," /\ Outside(text, k)}

\* The pieces of text between the positions of breaks that lie in lo..hi.
Pieces(text, breaks, lo, hi) ==
    LET cuts == Ascending({k \in breaks : lo <= k /\ k <= hi}, Len(text))
    IN  [i \in 1..(Len(cuts) + 1) |->
            [lo |-> IF i = 1 THEN lo ELSE cuts[i - 1] + 1,
             hi |-> IF i > Len(cuts) THEN hi ELSE cuts[i] - 1]]

\* A field is well formed when it has no double quote, or stands between
\* double quotes and every double quote inside is one of an adjacent pair.
InnerQuotes(f) == {k \in 2..(Len(f) - 1) : f[k] = DQ}

FirstOfPair(f, k) == Cardinality({j \in InnerQuotes(f) : j < k}) % 2 = 0

WellFormed(f) ==
    \/ DQ \notin Range(f)
    \/ /\ Len(f) >= 2 /\ f[1] = DQ /\ f[Len(f)] = DQ
       /\ Cardinality(InnerQuotes(f)) % 2 = 0
       /\ \A k \in InnerQuotes(f) : FirstOfPair(f, k) => (k + 1) \in InnerQuotes(f)

\* The value of a well-formed field: a quoted field loses its outer quotes
\* and the second double quote of every pair.
Unquote(f) ==
    IF DQ \notin Range(f) THEN f
    ELSE LET keep == Ascending({k \in 2..(Len(f) - 1) :
                                   ~(k \in InnerQuotes(f) /\ ~FirstOfPair(f, k))},
                               Len(f))
         IN  [i \in 1..Len(keep) |-> f[keep[i]]]

\* The rows of text as sequences of raw fields.
RawRows(text) ==
    LET rows == Pieces(text, RowBreaks(text), 1, Len(text))
    IN  [r \in 1..Len(rows) |->
            LET cols == Pieces(text, FieldBreaks(text), rows[r].lo, rows[r].hi)
            IN  [c \in 1..Len(cols) |-> SubSeq(text, cols[c].lo, cols[c].hi)]]

ParseCSV(text) ==
    LET raw == RawRows(text)
    IN  IF /\ Cardinality(QuotesOf(text)) % 2 = 0
           /\ \A r \in 1..Len(raw) : \A c \in 1..Len(raw[r]) : WellFormed(raw[r][c])
        THEN [ok |-> TRUE,
              rows |-> [r \in 1..Len(raw) |->
                           [c \in 1..Len(raw[r]) |-> Unquote(raw[r][c])]]]
        ELSE Malformed

\* The decimal text of the identifiers of the pools.
IdText(n) ==
    CASE n = 1 -> <<"1">> [] n = 2 -> <<"2">> [] n = 3 -> <<"3">>
      [] n = 4 -> <<"4">> [] n = 5 -> <<"5">> [] n = 6 -> <<"6">>
      [] n = 7 -> <<"7">> [] n = 11 -> <<"1", "1">> [] n = 12 -> <<"1", "2">>

\* The value of an optional field: empty when the field is absent.
ValueOrEmpty(v) == IF v = Undefined THEN Empty ELSE v

\* The 19 values record r is to export, in the order of the header.
ExportValues(r) ==
    <<IdText(r.id), r.company_name, r.announcement_title, r.description,
      r.announcement_type, r.location, r.products, r.announcement_date,
      r.announcement_url,
      IF r.checked = 1 THEN sCheckedLabel ELSE sUncheckedLabel,
      r.scraped_date,
      ValueOrEmpty(r.prenom), ValueOrEmpty(r.adresse),
      ValueOrEmpty(r.cod_postal), ValueOrEmpty(r.ville),
      ValueOrEmpty(r.mail), ValueOrEmpty(r.tel),
      ValueOrEmpty(r.web_site), ValueOrEmpty(r.ok)>>

\* The columns emitted without quotes (id, date, URL) and the textual ones.
RawColumns == {1, 8, 9}

TextColumns == (1..19) \ RawColumns

\* v between double quotes, each double quote of v written twice.
Quoted(v) ==
    LET at == [k \in 1..Len(v) |-> IF v[k] = DQ THEN <<DQ, DQ>> ELSE <<v[k]>>]
    IN  <<DQ>> \o flat(at) \o <<DQ>>

Exported == lastExport.csvContent # Empty

\* The header line of the payload: its text before the first line break.
HeaderLine ==
    LET text == lastExport.csvContent
        ends == {k \in 1..Len(text) : text[k] = "\n"}
    IN  IF ends = {} THEN text
        ELSE SubSeq(text, 1, (CHOOSE k \in ends : \A m \in ends : k <= m) - 1)

HeaderColumns == 1 + Cardinality({k \in 1..Len(HeaderLine) : HeaderLine[k] = ","})

\* C12 as stated: the header row has exactly 18 columns and every data row
\* has as many fields as the header.
C12_Original ==
    Exported =>
        /\ HeaderColumns = 18
        /\ \A i \in 1..Len(lastExport.csvData) :
               Len(lastExport.csvData[i]) = HeaderColumns

\* C12 amended: the header row has exactly 19 columns (the 11 record columns
\* and the 8 contact columns) and every data row is assembled from 19
\* fields, one per column.
C12_HeaderHas19Columns ==
    Exported =>
        /\ HeaderColumns = 19
        /\ HeaderLine = join(csvHeaders, <<",">>)
        /\ \A i \in 1..Len(csvHeaders) : "," \notin Range(csvHeaders[i])
        /\ Len(lastExport.csvData) = Len(lastExport.view)
        /\ \A i \in 1..Len(lastExport.csvData) :
               Len(lastExport.csvData[i]) = HeaderColumns

\* C12 witness: an export of two records.
C12_Witness ==
    /\ Exported
    /\ lastExport.view = <<X1, X2>>
    /\ Len(lastExport.csvData) = 2
    /\ Len(lastExport.csvData[1]) = 19 /\ Len(lastExport.csvData[2]) = 19

\* C13 as stated: in every data row each textual field stands between double
\* quotes with its double quotes doubled, and id, date and URL are emitted
\* as they are.
C13_Original ==
    \A i \in 1..Len(lastExport.csvData) :
        /\ \A k \in RawColumns :
               lastExport.csvData[i][k] = ExportValues(lastExport.view[i])[k]
        /\ \A k \in TextColumns :
               lastExport.csvData[i][k] = Quoted(ExportValues(lastExport.view[i])[k])

\* C14 as stated: reading the payload back gives the header and one row per
\* exported record, holding the record's values.
C14_Original ==
    Exported =>
        /\ ParseCSV(lastExport.csvContent).ok
        /\ ParseCSV(lastExport.csvContent).rows =
               <<csvHeaders>> \o [i \in 1..Len(lastExport.view) |->
                                     ExportValues(lastExport.view[i])]

\* The round trip on records whose fields hold no double quote, comma or
\* line break.
PlainRoundTrip ==
    lastExport.view \in {<<R4, R5, R6, R7>>, <<R4, R7>>, <<R5>>} =>
        /\ ParseCSV(lastExport.csvContent).ok
        /\ ParseCSV(lastExport.csvContent).rows =
               <<csvHeaders>> \o [i \in 1..Len(lastExport.view) |->
                                     ExportValues(lastExport.view[i])]

\* C15: an export happens only while none is in progress and the view is not
\* empty, and it gives one data row per record of the view as it is then, in
\* the view's order, the i-th row carrying the id of the i-th record.
C15_RowsFollowView ==
    [][lastExport' # lastExport =>
          /\ ~exporting
          /\ Len(View) # 0
          /\ lastExport'.view = View
          /\ Len(lastExport'.csvData) = Len(View)
          /\ \A i \in 1..Len(View) :
                 lastExport'.csvData[i][1] = IdText(View[i].id)]_vars

\* C15 witness: type "Offre" is selected over a store of four records and
\* the export holds the rows of the two "Offre" records, in their order.
C15_Witness ==
    /\ Store = <<R4, R5, R6, R7>>
    /\ filterType = sOffre /\ DefaultStatus
    /\ lastExport.view = <<R4, R7>>
    /\ Len(lastExport.csvData) = 2
    /\ lastExport.csvData[1][1] = <<"4">>
    /\ lastExport.csvData[2][1] = <<"7">>

(***************************************************************************)
(* Vocabulary of the monitor properties: the kinds of step, told by what   *)
(* they change.                                                            *)
(***************************************************************************)
\* A stop command: its dialog opens.
StopStep == alert = "none" /\ alert' = "stopped"

\* A start command.
StartStep == startsIssued' > startsIssued

\* A status request is sent.
PollIssued == \E t \in TimerIds : polls'[t] > polls[t]

\* A status response reporting running = false is handled.
CompletionBegins == completions'.ann > completions.ann

\* The completion message is surfaced.
MessageShown == alert # "completed" /\ alert' = "completed"

\* The page is loaded anew.
ReloadStep == alert = "completed" /\ alert' = "none"

\* C16 as stated: a stop command leaves the monitor idle and issues a store
\* refresh and a stats refresh at once, and from a stop command to the next
\* start command no status poll is issued.
C16_Original ==
    [][/\ StopStep => /\ ~scraping'
                      /\ annPending' = annPending + 1
                      /\ statsPending' = statsPending + 1
       /\ idleBy = "stop" => ~PollIssued]_vars

\* C17 as stated: at most one polling timer is set at any time, and a start
\* command is issued only while the monitor is idle.
C17_Original ==
    [][/\ Cardinality(timers') <= 1
       /\ StartStep => ~scraping]_vars

\* C18 as stated: handling a status response that reports running = false
\* leaves the monitor idle with no polling timer; the completion message is
\* surfaced only by a callback whose store refresh had settled, at the
\* moment its stats refresh settles; and from that transition to the next
\* start command no status poll is issued.
C18_Original ==
    [][/\ CompletionBegins => ~scraping' /\ timers' = {}
       /\ MessageShown => /\ completions.stats > 0
                          /\ completions'.stats = completions.stats - 1
                          /\ completions'.ann = completions.ann
       /\ idleBy = "complete" => ~PollIssued]_vars

\* C19: a start command sets the monitor running in the same step, leaving
\* the timers as they are and its request in flight; a timer is set only by
\* the step in which a start request in flight resolves.
C19_StartIsOptimistic ==
    [][/\ StartStep => /\ ~scraping /\ scraping'
                       /\ timers' = timers
                       /\ (startsIssued + 1) \in startPending'
       /\ \A k \in timers' \ timers :
              k \in startPending /\ k \notin startPending']_vars

\* C19 witness: the monitor is running, its start request is in flight and
\* no polling timer is set.
C19_Witness ==
    /\ scraping
    /\ idleBy = "start"
    /\ startPending = {1}
    /\ timers = {}
    /\ statusCheckInterval = 0

\* C20: while the monitor is running with its timer set and no start request
\* in flight, every step other than a stop command, the handling of a status
\* response reporting running = false, or a page load leaves it running
\* with the same timer set.
C20_NoTimeout ==
    [][(/\ scraping /\ timers # {} /\ startPending = {}
        /\ ~StopStep /\ ~CompletionBegins /\ ~ReloadStep)
       => scraping' /\ timers' = timers]_vars

\* C20 witness: the monitor is running since its start command with its
\* timer set, and the timer has sent as many status requests as can be in
\* flight together.
C20_Witness ==
    /\ scraping
    /\ idleBy = "start"
    /\ startPending = {}
    /\ timers = {1}
    /\ polls[1] = MaxPolls

(***************************************************************************)
(* Failures, overlapping requests and local updates.                       *)
(***************************************************************************)
\* C21: when the latest announcements fetch has failed, the Record Store is
\* the empty sequence and the loading flag is cleared, whatever the store
\* held before.
C21_ErrorEmptiesStore ==
    lastFetch = "error" => /\ isArray(announcements)
                           /\ Store = <<>>
                           /\ ~loading

\* C21 witness: the latest fetch failed and the store is empty, although
\* the type criterion still holds a facet value of the records the store
\* held before the failure.
C21_Witness ==
    /\ lastFetch = "error"
    /\ Store = <<>>
    /\ ~loading
    /\ filterType = sOffre
    /\ annPending = 0

\* The kinds of step that end a check-toggle or a contact-save, and the call
\* that ended.
ToggleEnds == toggles' # toggles /\ toggles' \subseteq toggles

ToggleOk == ToggleEnds /\ lastWrite'.op = "toggle"

ToggleFails == ToggleEnds /\ lastWrite'.op = "toggleFail"

SaveEnds == saves' # saves /\ saves' \subseteq saves

SaveOk == SaveEnds /\ lastWrite'.op = "save"

SaveFails == SaveEnds /\ lastWrite'.op = "saveFail"

CancelStep == editingContact # 0 /\ editingContact' = 0 /\ saves' = saves

ContactFields == {"prenom", "adresse", "cod_postal", "ville", "mail", "tel",
                  "web_site", "ok"}

\* C22 as stated: after a failed check-toggle the store shows the flipped
\* flag of the record, and after a failed contact-save it shows the form
\* values in the record's contact fields.
C22_Original ==
    [][/\ ToggleFails =>
              \E i \in 1..Len(Store') :
                  /\ Store'[i].id = lastWrite'.req.id
                  /\ Store'[i].checked = lastWrite'.req.newChecked
       /\ SaveFails =>
              \E i \in 1..Len(Store') :
                  /\ Store'[i].id = lastWrite'.req.id
                  /\ \A f \in ContactFields :
                         Store'[i][f] = lastWrite'.req.form[f]]_vars

\* C22 amended: a check-toggle or contact-save whose request fails applies
\* no change: the Record Store after the failure is the store as it was
\* before it.
C22_FailureAppliesNothing ==
    [][(ToggleFails \/ SaveFails) => announcements' = announcements]_vars

\* C22 witness: the check-toggle of record 1 has failed and the store holds
\* the records as fetched, record 1 with the flag it had.
C22_Witness ==
    /\ lastWrite.op = "toggleFail"
    /\ lastWrite.req.id = 1
    /\ lastWrite.req.newChecked # R1.checked
    /\ Store = <<R1, R2>>
    /\ toggles = {}

\* C23: the response of a refresh, on arrival, makes the Record Store equal
\* to its own payload, whatever the store held and whichever call it
\* answers.
C23_LastResponseWins ==
    [][Len(arrivals') > Len(arrivals) =>
          /\ isArray(announcements')
          /\ Store' = arrivals'[Len(arrivals')].data.items]_vars

\* C23 witness: two refreshes were in flight together, the response to the
\* second arrived first, the response to the first arrived last, and the
\* store holds the payload of the first.
C23_Witness ==
    /\ Len(arrivals) = 2
    /\ arrivals[1] = [req |-> 2, data |-> JArray(<<R1, R2>>)]
    /\ arrivals[2] = [req |-> 1, data |-> JArray(<<R2, R3>>)]
    /\ Store = <<R2, R3>>
    /\ annInFlight = {}

\* The store after the step differs from the store before it at most in the
\* fields named, of the records with the id named.
DiffersOnlyIn(id, fields) ==
    /\ Len(Store') = Len(Store)
    /\ \A i \in 1..Len(Store) :
           /\ DOMAIN Store'[i] = DOMAIN Store[i]
           /\ \A f \in DOMAIN Store[i] :
                  Store'[i][f] # Store[i][f] =>
                      Store[i].id = id /\ f \in fields

\* C24 as stated: the completion of a check-toggle (of a contact-save) for a
\* record changes, in the store as it was just before, only the checked flag
\* (the 8 contact fields) of that record.
C24_Original ==
    [][/\ ToggleOk => DiffersOnlyIn(lastWrite'.req.id, {"checked"})
       /\ SaveOk => DiffersOnlyIn(lastWrite'.req.id, ContactFields)]_vars

\* The store after the step shows flag newChecked for the records with id.
ShowsFlag(id, newChecked) ==
    /\ \E i \in 1..Len(Store') : Store'[i].id = id
    /\ \A i \in 1..Len(Store') :
           Store'[i].id = id => Store'[i].checked = newChecked

\* C26 as stated: when a check-toggle succeeds right after the success of a
\* check-toggle of another record that was in flight together with it, the
\* store shows the new flag of both records.
C26_Original ==
    [][(/\ ToggleOk
        /\ lastWrite.op = "toggle"
        /\ lastWrite'.req \in lastWrite.rest
        /\ lastWrite'.req.id # lastWrite.req.id)
       => /\ ShowsFlag(lastWrite'.req.id, lastWrite'.req.newChecked)
          /\ ShowsFlag(lastWrite.req.id, lastWrite.req.newChecked)]_vars

\* C30: one id at most is in editing mode; a successful contact-save leaves
\* the form values it sent in the 8 contact fields of the target record,
\* ends editing and empties the form; a failed one leaves the store, the
\* editing target and the form as they were; cancel leaves the store as it
\* was, ends editing and empties the form.
C30_ContactEditing ==
    [][/\ Cardinality({i \in 1..Len(Store') : Store'[i].id = editingContact'}) <= 1
       /\ SaveOk =>
              /\ \E i \in 1..Len(Store') : Store'[i].id = lastWrite'.req.id
              /\ \A i \in 1..Len(Store') :
                     Store'[i].id = lastWrite'.req.id =>
                         \A f \in ContactFields :
                             Store'[i][f] = lastWrite'.req.form[f]
              /\ editingContact' = 0
              /\ \A f \in ContactFields : contactForm'[f] = Empty
       /\ SaveFails =>
              /\ announcements' = announcements
              /\ editingContact' = editingContact
              /\ contactForm' = contactForm
       /\ CancelStep =>
              /\ announcements' = announcements
              /\ \A f \in ContactFields : contactForm'[f] = Empty]_vars

\* C30 witness: the contact-save of record 1 with a telephone number typed
\* in has succeeded: the record holds the number, no record is in editing
\* mode and the form is empty.
C30_Witness ==
    /\ lastWrite.op = "save"
    /\ lastWrite.req.id = 1
    /\ lastWrite.req.form.tel = sTel
    /\ Store[1].id = 1 /\ Store[1].tel = sTel /\ Store[1].mail = R1.mail
    /\ editingContact = 0
    /\ contactForm.tel = Empty
    /\ saves = {}

\* A status response, or the failure of a status request, is handled.
PollAnswered == \E t \in TimerIds : polls'[t] < polls[t]

\* C25: the failure of a status poll changes neither the monitor state nor
\* the timers, begins no completion, opens no message and issues no
\* refresh; the store is left as it was.
C25_PollFailureChangesNothing ==
    [][(PollAnswered /\ lastPoll' = "failed") =>
          /\ scraping' = scraping
          /\ timers' = timers
          /\ statusCheckInterval' = statusCheckInterval
          /\ completions' = completions
          /\ alert' = alert
          /\ annPending' = annPending /\ statsPending' = statsPending
          /\ announcements' = announcements]_vars

\* C25 witness: a status poll has failed, the monitor is still running with
\* its timer set, and the timer has sent further polls since.
C25_Witness ==
    /\ lastPoll = "failed"
    /\ scraping
    /\ idleBy = "start"
    /\ timers = {1}
    /\ polls[1] = MaxPolls

\* C27 as stated: a status response reporting running = false starts the
\* completion sequence only while the monitor is in the cycle of its latest
\* start command, neither stopped by the user nor completed already.
C27_Original ==
    [][CompletionBegins => idleBy = "start"]_vars

\* The view is exactly the records of the type (of the location) selected.
ExactlyTheType ==
    \A i \in 1..Len(Store) :
        InView(Store[i]) <=> Store[i].announcement_type = filterType

ExactlyTheLocation ==
    \A i \in 1..Len(Store) :
        InView(Store[i]) <=> Store[i].location = filterLocation

\* The view is not empty and holds every record with the product token
\* selected.
EveryRecordWithToken ==
    /\ Len(View) > 0
    /\ \A i \in 1..Len(Store) :
           filterProduct \in TokensOf(Store[i]) => InView(Store[i])

\* C28 as stated: when a selector is set, the other criteria being at their
\* defaults, to a type (location) of a record of the store, the view is
\* exactly the records of that type (location); when the product selector
\* is set to a product token of the store, the view is not empty and holds
\* every record with that token.
C28_Original ==
    [][/\ (/\ filterType' # filterType /\ ~cleared'
           /\ OnlyTypeLocationActive' /\ DefaultLocation'
           /\ \E k \in 1..Len(Store) : Store[k].announcement_type = filterType')
          => ExactlyTheType'
       /\ (/\ filterLocation' # filterLocation /\ ~cleared'
           /\ OnlyTypeLocationActive' /\ DefaultType'
           /\ \E k \in 1..Len(Store) : Store[k].location = filterLocation')
          => ExactlyTheLocation'
       /\ (/\ filterProduct' # filterProduct /\ ~cleared'
           /\ OnlyProductActive'
           /\ \E k \in 1..Len(Store) : filterProduct' \in TokensOf(Store[k]))
          => EveryRecordWithToken']_vars

\* C29: a clear-all leaves the Record Store, the Stats snapshot and the
\* monitor as they were; after it, and until a criterion is set again, the
\* eight criteria are at their defaults (so that a second clear-all changes
\* nothing) and the Filtered View is the whole Record Store.
C29_ClearAllResets ==
    [][/\ (~cleared /\ cleared') =>
              /\ announcements' = announcements
              /\ stats' = stats
              /\ scraping' = scraping
              /\ timers' = timers
              /\ statusCheckInterval' = statusCheckInterval
       /\ cleared' => (AllDefaults' /\ View' = Store')]_vars

\* C29 witness: clear-all has been applied over a store of three records
\* and no criterion set since; every criterion is at its default and the
\* view holds the three records.
C29_Witness ==
    /\ cleared
    /\ AllDefaults
    /\ Store = <<R1, R2, R3>>
    /\ View = <<R1, R2, R3>>

====
